---- MODULE Spec2Model ----
(***************************************************************************)
(* Tiling pipeline of custom/preprocess.py: get_labelled_tiles drives one  *)
(* DeepZoomStaticTiler per slide; the tiler enumerates the tile grid and   *)
(* feeds a bounded JoinableQueue read by TileWorker processes; workers and *)
(* tiler report tile paths on one multiprocessing.Queue shared by all the  *)
(* slides of a get_labelled_tiles call.  get_train_valid_split and         *)
(* calc_augmentation_factor are modelled as functions applied to inputs    *)
(* drawn from bounded sets.                                                *)
(***************************************************************************)
EXTENDS Integers, Sequences, FiniteSets, TLC

\* ------------------------------------------------------------------ bounds
\* worker processes created by one get_labelled_tiles call
MaxWorkers == 2
\* columns of the full-resolution level of the pyramid
MaxCols == 2
\* slide files given to get_train_valid_split
MaxFiles == 4
\* tile counts 0 .. MaxCount of a class, next to the larger ones of TileCounts
MaxCount == 3
\* tiles of a slide in the dictionary given to augment_tiles_based_on_factor
MaxTiles == 2
\* records of the label file
MaxRecords == 2

\* ---------------------------------------------------------------- fixtures
\* the terminal sentinel of worker_queue; tile paths are (slide, col, row)
None == << >>

\* the terminal sentinel of the job queue
NoneJob == [kind |-> "None"]

\* dz.level_tiles, level 0 first: (cols, rows) of each DeepZoom level
Pyramid == << <<1, 1>>, <<MaxCols, 1>> >>

\* the objective power is not in the properties of the slide
NoObjective == 0

\* what a slide of a call can be: a scanner file with its objective power,
\* the same without it, a photograph without it, a TIFF file without it
SlideKinds ==
    {[properties |-> 20, img_extension |-> "svs"],
     [properties |-> NoObjective, img_extension |-> "svs"],
     [properties |-> NoObjective, img_extension |-> "jpg"],
     [properties |-> NoObjective, img_extension |-> "tiff"]}

\* values of the magnification argument: 0 = every level, 20 and 10 select one
\* level of the pyramid of an objective of 20, 1 one of an objective of 1, 5
\* selects none
Magnifications == {0, 1, 5, 10, 20}

\* the magnifications given with a photograph or a TIFF file: the objective
\* of the one and of the other
FallbackMagnifications == {1, 20}

\* arguments get_labelled_tiles passes on to every tiler
TilerArgs == [background |-> 50, ROIpc |-> 0, PercentMasked |-> 100]

\* label file content: label -> samples, in dict order
LabelOrder == <<"A", "B">>

sample_labels == [l \in {"A", "B"} |-> IF l = "A" THEN {1} ELSE {2}]

labels_map == [l \in {"A", "B"} |-> IF l = "A" THEN 0 ELSE 1]

VARIABLES
    \* ---- inputs of get_labelled_tiles (never change)
    slide_list,     \* sequence of slide ids; an id listed twice is the tiler
                    \* run again on the same slide into the same directory
    workers,        \* workers argument
    magnification,  \* magnification argument (Mag)
    properties,     \* slide id -> slide.properties[PROPERTY_NAME_OBJECTIVE_POWER],
                    \* NoObjective when the key is missing
    img_extension,  \* img_extension argument (ImgExtension)
    \* ---- main process
    pc,             \* position of the main process
    idx,            \* position in slide_list of the slide being processed
    pos,            \* position of _write_tiles in its enumeration
    sentinels,      \* run -> sentinels put by _shutdown so far
    tile_dict,      \* label enum -> slide id -> list of tile paths
    \* ---- per run (position in slide_list)
    queue,          \* run -> JoinableQueue content (put and not yet got)
    unfinished,     \* run -> JoinableQueue._unfinished_tasks
    wpc,            \* run -> worker -> position of the TileWorker
    wjob,           \* run -> worker -> job the worker holds
    \* ---- shared
    files,          \* tile paths that exist on disk
    out_buffer,     \* process -> items put on worker_queue, not yet in the pipe
    worker_queue,   \* items in the pipe of worker_queue, in arrival order
    \* ---- history
    enqueued,       \* run -> jobs put on the job queue, in order
    taken,          \* run -> jobs the workers got from the job queue, in order
    acked,          \* run -> task_done calls on the job queue
    skipped,        \* run -> outfiles skipped on a Warning, in order
    shortcut,       \* run -> paths _write_tiles put on worker_queue itself
    reported,       \* run -> paths put on worker_queue by the run's processes
    collected,      \* run -> paths appended by the drain of the run
    posted,         \* run -> terminal sentinels put on worker_queue
    failed,         \* run -> where the run raised ("no" if it did not)
    caught,         \* run -> jobs whose processing raised inside the worker
    normalized,     \* run -> outfiles _write_normalized_image was called for
    files_after,    \* run -> files when the drain of the run stopped
    \* ---- get_train_valid_split
    sp_files, sp_class, sp_split, sp_pc, sp_todo, sp_train, sp_valid, sp_take,
    \* ---- slides_to_tiles tile counts / calc_augmentation_factor
    au_counts, au_pc, au_todo, au_smallest, au_count_dict, au_new,
    \* ---- augment_tiles_based_on_factor
    ag_tiles,       \* tiles_dict: label enum -> slide id -> list of file names
    ag_factor,      \* class_by_tile_count_dict: label enum -> (count, factor)
    ag_files,       \* files that exist on disk
    ag_pc,          \* position in the function ("idle" between two calls)
    ag_call,        \* calls of the function started so far
    ag_todo,        \* (label, slide) pairs the two outer loops have yet to visit
    ag_k,           \* position of the loop over tiles_list
    ag_new_list,    \* new_list of the slide being visited
    ag_after,       \* call -> files and tiles_dict when the call returned
    \* ---- one job of a TileWorker with given thresholds (the tile filter)
    fl_pixels,      \* the tile dz.get_tile returns: distinct luminance values
                    \* and percentage of pixels with luminance below 220
    fl_Bkg,         \* self._Bkg
    fl_ROIpc,       \* self._ROIpc
    fl_PercentMasked, \* PercentMasked of the job, as a percentage
    fl_pc,          \* position of the worker
    fl_fetched,     \* dz.get_tile returned the tile
    fl_normalized,  \* _write_normalized_image was called
    fl_files,       \* files written
    fl_out,         \* paths put on out_queue
    fl_caught,      \* exceptions caught in the loop
    fl_done,        \* task_done calls
    \* ---- TileWorker._stain_dict_Vahadane from the decomposition on
    st_W,           \* WisHisHisv: two rows, each a vector divided by sqrt(den2)
    st_pc,          \* position in the function
    \* ---- slides_to_tiles from the label file to the tiling
    lb_records,     \* lines of the label file: (sample, label)
    lb_files,       \* glob(slidepath): slide ids
    lb_pc,          \* position in slides_to_tiles
    lb_k,           \* position of the loop at lb_pc
    lb_sample_labels, \* sample_labels: (label, samples) in insertion order
    lb_dirs,        \* label directories made
    lb_tilers       \* slides a DeepZoomStaticTiler was constructed and run for

vars_tiling ==
    << slide_list, workers, magnification, properties, img_extension, pc, idx,
       pos, sentinels, tile_dict, queue, unfinished, wpc, wjob, files,
       out_buffer, worker_queue, enqueued, taken, acked, skipped, shortcut,
       reported,
       collected, posted, failed, caught, normalized, files_after >>

vars_split ==
    << sp_files, sp_class, sp_split, sp_pc, sp_todo, sp_train, sp_valid, sp_take >>

vars_augment ==
    << au_counts, au_pc, au_todo, au_smallest, au_count_dict, au_new >>

vars_engine ==
    << ag_tiles, ag_factor, ag_files, ag_pc, ag_call, ag_todo, ag_k,
       ag_new_list, ag_after >>

vars_filter ==
    << fl_pixels, fl_Bkg, fl_ROIpc, fl_PercentMasked, fl_pc, fl_fetched,
       fl_normalized, fl_files, fl_out, fl_caught, fl_done >>

vars_stain ==
    << st_W, st_pc >>

vars_labels ==
    << lb_records, lb_files, lb_pc, lb_k, lb_sample_labels, lb_dirs, lb_tilers >>

vars_more ==
    << vars_engine, vars_filter, vars_stain, vars_labels >>

vars ==
    << vars_tiling, vars_split, vars_augment, vars_more >>

\* ------------------------------------------------------------ sequences
Range(s) ==
    {s[k] : k \in DOMAIN s}

NoDuplicates(s) ==
    \A j, k \in DOMAIN s : j # k => s[j] # s[k]

Main == <<0, 0>>

Runs == 1 .. Len(slide_list)

Workers == 1 .. workers

\* ------------------------------------------------- labels (get_sample_label)
get_sample_label(sample) ==
    LET hits == {k \in DOMAIN LabelOrder : sample \in sample_labels[LabelOrder[k]]}
    IN  IF hits = {} THEN "RuntimeError"
        ELSE LabelOrder[CHOOSE k \in hits : \A j \in hits : k <= j]

\* ------------------------------------------ DeepZoomImageTiler._write_tiles
\* Objective of _write_tiles: the property, else 1.0 for jpg and dcm, 20.0 for
\* tiff and btf, else NoObjective for the return without a tile
ObjectiveOf(slide) ==
    IF properties[slide] # NoObjective THEN properties[slide]
    ELSE IF img_extension \in {"jpg", "dcm"} THEN 1
    ELSE IF img_extension \in {"tiff", "btf"} THEN 20
    ELSE NoObjective

\* the Objective of the tiler of the slide being processed
Objective ==
    ObjectiveOf(slide_list[idx])

\* Available[0] = Objective / Factors[0], level 0 of a slide is not downsampled
Available0 == Objective

level_count == Len(Pyramid)

level_tiles(level) == Pyramid[level + 1]

\* ThisMag = Available[0] / pow(2, level_count - (level + 1)), compared with
\* Mag without dividing
ThisMagIs(level, Mag) ==
    Available0 = Mag * 2 ^ (level_count - (level + 1))

\* faulty variant of LevelSelected: every level of at least the magnification
LevelSelectedAtLeast(level, Mag) ==
    Mag > 0 => Available0 >= Mag * 2 ^ (level_count - (level + 1))

\* if self._Mag > 0: if ThisMag != self._Mag: continue
LevelSelected(level, Mag) ==
    Mag > 0 => ThisMagIs(level, Mag)

\* for row in range(rows): for col in range(cols)
LevelAddresses(level) ==
    LET cols == level_tiles(level)[1]
        rows == level_tiles(level)[2]
    IN  [k \in 1 .. cols * rows |->
            [level |-> level, col |-> (k - 1) % cols, row |-> (k - 1) \div cols]]

RECURSIVE WriteTilesFrom(_, _)
\* for level in range(self._dz.level_count - 1, -1, -1)
WriteTilesFrom(level, Mag) ==
    IF level < 0 THEN << >>
    ELSE (IF LevelSelected(level, Mag) THEN LevelAddresses(level) ELSE << >>)
         \o WriteTilesFrom(level - 1, Mag)

\* the addresses _write_tiles visits, in order; none after the early return
WriteTilesOrder(Mag) ==
    IF Objective = NoObjective THEN << >> ELSE WriteTilesFrom(level_count - 1, Mag)

\* tilename = "%s_%d_%d.%s" % (self._basename, col, row, self._format)
tilename(slide, col, row) == <<slide, col, row>>

TileJob(slide, a) ==
    [kind |-> "job", level |-> a.level, col |-> a.col, row |-> a.row,
     outfile |-> tilename(slide, a.col, a.row)]

\* ------------------------------------------------------ TileWorker filter
\* what dz.get_tile returns for an address: the number of distinct luminance
\* values and the percentage of pixels with luminance >= 220
Pixels(slide, level, col, row) ==
    IF level = level_count - 1 /\ col % 2 = 1
    THEN [unique |-> 1, avgBkg |-> 100]
    ELSE [unique |-> 64, avgBkg |-> 20 + 10 * level]

\* faulty variant of TileStats: bw is 1 below 220, so that the average is the
\* fraction of dark pixels
TileStatsDark(pixels) ==
    [unique |-> pixels.values, avgBkg |-> pixels.below]

\* gray = tile.convert("L"); bw = gray.point(lambda x: 0 if x < 220 else 1);
\* avgBkg = np.average(bw): the share of pixels at or above 220, in percent;
\* count_unique of np.unique(gray): the distinct luminance values
TileStats(pixels) ==
    [unique |-> pixels.values, avgBkg |-> 100 - pixels.below]

\* faulty variant of Accepts: a tile at the background threshold is rejected
AcceptsStrict(tile, Bkg, ROIpc, PercentMasked) ==
    /\ tile.unique > 10
    /\ tile.avgBkg < Bkg
    /\ PercentMasked >= ROIpc

\* faulty variant of Accepts: no test of the distinct values, as before the
\* condition on count_unique was added
AcceptsAnyUnique(tile, Bkg, ROIpc, PercentMasked) ==
    /\ tile.avgBkg <= Bkg
    /\ PercentMasked >= ROIpc

\* count_unique.size > 10 and avgBkg <= (self._Bkg / 100.0), then
\* PercentMasked >= (self._ROIpc / 100.0); percentages instead of fractions,
\* compared exactly
Accepts(tile, Bkg, ROIpc, PercentMasked) ==
    /\ tile.unique > 10
    /\ tile.avgBkg <= Bkg
    /\ PercentMasked >= ROIpc

\* the filter with the arguments get_labelled_tiles passes to every tiler
Accepted(tile) ==
    Accepts(tile, TilerArgs.background, TilerArgs.ROIpc, TilerArgs.PercentMasked)

\* ------------------------------------------------------- JoinableQueue
\* faulty variant of Full: the queue takes one item more than its maxsize
FullOneLate(run) ==
    2 * workers > 0 /\ Len(queue[run]) > 2 * workers

\* JoinableQueue(2 * workers): a maxsize <= 0 means no limit
Full(run) ==
    2 * workers > 0 /\ Len(queue[run]) >= 2 * workers

\* self._queue.put(item): takes a slot, counts the item as unfinished
QueuePut(run, item) ==
    /\ ~Full(run)
    /\ queue' = [queue EXCEPT ![run] = Append(@, item)]
    /\ unfinished' = [unfinished EXCEPT ![run] = @ + 1]

\* out_queue.put(item): hands the item to the feeder thread of the process
OutPut(proc, item) ==
    out_buffer' = [out_buffer EXCEPT ![proc] = Append(@, item)]

\* ------------------------------------------------------ get_labelled_tiles
\* one slide, the same slide tiled twice, two slides
SlideLists ==
    {<<1>>, <<1, 1>>, <<1, 2>>}

InitSplitIdle ==
    /\ sp_files = << >> /\ sp_class = << >> /\ sp_split = <<0, 1>>
    /\ sp_pc = "off" /\ sp_todo = << >> /\ sp_train = << >>
    /\ sp_valid = << >> /\ sp_take = << >>

InitAugmentIdle ==
    /\ au_counts = << >> /\ au_pc = "off" /\ au_todo = << >>
    /\ au_smallest = 0 /\ au_count_dict = << >> /\ au_new = << >>

InitEngineIdle ==
    /\ ag_tiles = << >> /\ ag_factor = << >> /\ ag_files = {}
    /\ ag_pc = "off" /\ ag_call = 0 /\ ag_todo = << >> /\ ag_k = 0
    /\ ag_new_list = << >> /\ ag_after = << >>

InitFilterIdle ==
    /\ fl_pixels = << >> /\ fl_Bkg = 0 /\ fl_ROIpc = 0 /\ fl_PercentMasked = 0
    /\ fl_pc = "off" /\ fl_fetched = FALSE /\ fl_normalized = FALSE
    /\ fl_files = {} /\ fl_out = << >> /\ fl_caught = 0 /\ fl_done = 0

InitStainIdle ==
    st_W = << >> /\ st_pc = "off"

InitLabelsIdle ==
    /\ lb_records = << >> /\ lb_files = << >> /\ lb_pc = "off" /\ lb_k = 0
    /\ lb_sample_labels = << >> /\ lb_dirs = {} /\ lb_tilers = << >>

InitMoreIdle ==
    InitEngineIdle /\ InitFilterIdle /\ InitStainIdle /\ InitLabelsIdle

InitTiling ==
    /\ slide_list \in SlideLists
    /\ workers \in 0 .. MaxWorkers
    /\ Len(slide_list) * workers <= MaxWorkers
    /\ magnification \in Magnifications
    /\ img_extension \in {kind.img_extension : kind \in SlideKinds}
    /\ properties \in [Range(slide_list) -> {kind.properties : kind \in SlideKinds}]
    /\ \A slide \in Range(slide_list) :
          [properties |-> properties[slide], img_extension |-> img_extension]
              \in SlideKinds
    /\ img_extension # "svs" => magnification \in FallbackMagnifications
    /\ pc = "for"
    /\ idx = 1
    /\ pos = 0
    /\ sentinels = [r \in Runs |-> 0]
    /\ tile_dict = [c \in {labels_map[l] : l \in DOMAIN labels_map} |-> << >>]
    /\ queue = [r \in Runs |-> << >>]
    /\ unfinished = [r \in Runs |-> 0]
    /\ wpc = [r \in Runs |-> [w \in Workers |-> "new"]]
    /\ wjob = [r \in Runs |-> [w \in Workers |-> NoneJob]]
    /\ files = {}
    /\ out_buffer = [p \in {Main} \cup (Runs \X Workers) |-> << >>]
    /\ worker_queue = << >>
    /\ enqueued = [r \in Runs |-> << >>]
    /\ taken = [r \in Runs |-> << >>]
    /\ acked = [r \in Runs |-> 0]
    /\ skipped = [r \in Runs |-> << >>]
    /\ shortcut = [r \in Runs |-> << >>]
    /\ reported = [r \in Runs |-> {}]
    /\ collected = [r \in Runs |-> << >>]
    /\ posted = [r \in Runs |-> 0]
    /\ failed = [r \in Runs |-> "no"]
    /\ caught = [r \in Runs |-> 0]
    /\ normalized = [r \in Runs |-> {}]
    /\ files_after = [r \in Runs |-> {}]

Init ==
    InitTiling /\ InitSplitIdle /\ InitAugmentIdle /\ InitMoreIdle

unchanged_main ==
    UNCHANGED << slide_list, workers, magnification, properties, img_extension,
                 vars_split, vars_augment, vars_more >>

unchanged_workers ==
    UNCHANGED << wpc, wjob, caught, normalized, taken, acked, skipped >>

\* for filename in tqdm(slide_list): ... sample_class = get_sample_label(...)
ForSlide ==
    /\ pc = "for"
    /\ pc' = IF idx > Len(slide_list) THEN "return"
             ELSE IF get_sample_label(slide_list[idx]) = "RuntimeError" THEN "raise"
             ELSE "init"
    /\ unchanged_main /\ unchanged_workers
    /\ UNCHANGED << idx, pos, sentinels, tile_dict, queue, unfinished, files,
                    out_buffer, worker_queue, enqueued, shortcut, reported, collected,
                    posted, failed, files_after >>

\* except Exception as e: logger.warn(...); the loop goes on with the next slide
Except(where) ==
    /\ failed' = [failed EXCEPT ![idx] = where]
    /\ idx' = idx + 1
    /\ pc' = "for"
    /\ unchanged_main
    /\ UNCHANGED << pos, sentinels, tile_dict, queue, unfinished, files,
                    out_buffer, worker_queue, enqueued, shortcut, reported, collected,
                    posted, files_after >>

\* DeepZoomStaticTiler.__init__: open_slide, the queue, then workers x start()
TilerInit ==
    /\ pc = "init"
    /\ wpc' = [wpc EXCEPT ![idx] = [w \in Workers |-> "start"]]
    /\ pc' = "run_image"
    /\ unchanged_main
    /\ UNCHANGED << idx, pos, sentinels, tile_dict, queue, unfinished, wjob,
                    caught, normalized, taken, acked, skipped, files, out_buffer,
                    worker_queue,
                    enqueued, shortcut, reported, collected, posted, failed, files_after >>

\* open_slide(slidepath) raises: no worker has been started
TilerInitRaises ==
    /\ pc = "init"
    /\ Except("open_slide")
    /\ unchanged_workers

\* _run_image up to tiler.run(): DeepZoomGenerator and DeepZoomImageTiler built
RunImage ==
    /\ pc = "run_image"
    /\ pc' = "write_tiles"
    /\ pos' = 1
    /\ unchanged_main /\ unchanged_workers
    /\ UNCHANGED << idx, sentinels, tile_dict, queue, unfinished, files,
                    out_buffer, worker_queue, enqueued, shortcut, reported, collected,
                    posted, failed, files_after >>

\* DeepZoomGenerator(...) raises: the workers run, no job has been put
RunImageRaises ==
    /\ pc = "run_image"
    /\ Except("DeepZoomGenerator")
    /\ unchanged_workers

\* faulty variant of WriteTile: a job for every address, no os.path.exists
WriteTileAlwaysPut ==
    /\ pc = "write_tiles"
    /\ pos <= Len(WriteTilesOrder(magnification))
    /\ LET a == WriteTilesOrder(magnification)[pos]
       IN  /\ QueuePut(idx, TileJob(slide_list[idx], a))
           /\ enqueued' = [enqueued EXCEPT ![idx] = Append(@, TileJob(slide_list[idx], a))]
           /\ UNCHANGED << out_buffer, reported, shortcut >>
    /\ pos' = pos + 1
    /\ unchanged_main /\ unchanged_workers
    /\ UNCHANGED << pc, idx, sentinels, tile_dict, files, worker_queue,
                    collected, posted, failed, files_after >>

\* faulty variant of WriteTile: the path of an existing file is reported and
\* a job is put for it as well
WriteTileBoth ==
    /\ pc = "write_tiles"
    /\ pos <= Len(WriteTilesOrder(magnification))
    /\ LET a == WriteTilesOrder(magnification)[pos]
           name == tilename(slide_list[idx], a.col, a.row)
       IN  /\ QueuePut(idx, TileJob(slide_list[idx], a))
           /\ enqueued' = [enqueued EXCEPT ![idx] = Append(@, TileJob(slide_list[idx], a))]
           /\ IF name \in files
              THEN /\ OutPut(Main, name)
                   /\ reported' = [reported EXCEPT ![idx] = @ \cup {name}]
                   /\ shortcut' = [shortcut EXCEPT ![idx] = Append(@, name)]
              ELSE UNCHANGED << out_buffer, reported, shortcut >>
    /\ pos' = pos + 1
    /\ unchanged_main /\ unchanged_workers
    /\ UNCHANGED << pc, idx, sentinels, tile_dict, files, worker_queue,
                    collected, posted, failed, files_after >>

\* one (col, row) of _write_tiles: a job if the file is missing, else the path
WriteTile ==
    /\ pc = "write_tiles"
    /\ pos <= Len(WriteTilesOrder(magnification))
    /\ LET a == WriteTilesOrder(magnification)[pos]
           name == tilename(slide_list[idx], a.col, a.row)
       IN  IF name \notin files
           THEN /\ QueuePut(idx, TileJob(slide_list[idx], a))
                /\ enqueued' = [enqueued EXCEPT ![idx] = Append(@, TileJob(slide_list[idx], a))]
                /\ UNCHANGED << out_buffer, reported, shortcut >>
           ELSE /\ OutPut(Main, name)
                /\ reported' = [reported EXCEPT ![idx] = @ \cup {name}]
                /\ shortcut' = [shortcut EXCEPT ![idx] = Append(@, name)]
                /\ UNCHANGED << queue, unfinished, enqueued >>
    /\ pos' = pos + 1
    /\ unchanged_main /\ unchanged_workers
    /\ UNCHANGED << pc, idx, sentinels, tile_dict, files, worker_queue,
                    collected, posted, failed, files_after >>

\* self._dzi_data[...] = tiler.get_dzi(), after the last address
GetDzi ==
    /\ pc = "write_tiles"
    /\ pos > Len(WriteTilesOrder(magnification))
    /\ pc' = "shutdown"
    /\ unchanged_main /\ unchanged_workers
    /\ UNCHANGED << idx, pos, sentinels, tile_dict, queue, unfinished, files,
                    out_buffer, worker_queue, enqueued, shortcut, reported, collected,
                    posted, failed, files_after >>

\* tiler.get_dzi() raises: the jobs are in the queue, no sentinel follows
GetDziRaises ==
    /\ pc = "write_tiles"
    /\ pos > Len(WriteTilesOrder(magnification))
    /\ Except("get_dzi")
    /\ unchanged_workers

\* _shutdown: for _i in range(self._workers): self._queue.put(None)
ShutdownPut ==
    /\ pc = "shutdown"
    /\ sentinels[idx] < workers
    /\ QueuePut(idx, NoneJob)
    /\ sentinels' = [sentinels EXCEPT ![idx] = @ + 1]
    /\ unchanged_main /\ unchanged_workers
    /\ UNCHANGED << pc, idx, pos, tile_dict, files, out_buffer, worker_queue,
                    enqueued, shortcut, reported, collected, posted, failed, files_after >>

\* faulty variant of ShutdownJoin: the sentinel is posted without the join
ShutdownNoJoin ==
    /\ pc = "shutdown"
    /\ sentinels[idx] = workers
    /\ OutPut(Main, None)
    /\ posted' = [posted EXCEPT ![idx] = @ + 1]
    /\ pc' = "drain"
    /\ unchanged_main /\ unchanged_workers
    /\ UNCHANGED << idx, pos, sentinels, tile_dict, queue, unfinished, files,
                    worker_queue, enqueued, shortcut, reported, collected, failed,
                    files_after >>

\* _shutdown: self._queue.join(); self.out_queue.put(None)
ShutdownJoin ==
    /\ pc = "shutdown"
    /\ sentinels[idx] = workers
    /\ unfinished[idx] = 0
    /\ OutPut(Main, None)
    /\ posted' = [posted EXCEPT ![idx] = @ + 1]
    /\ pc' = "drain"
    /\ unchanged_main /\ unchanged_workers
    /\ UNCHANGED << idx, pos, sentinels, tile_dict, queue, unfinished, files,
                    worker_queue, enqueued, shortcut, reported, collected, failed,
                    files_after >>

\* tile_dict[labels_map[sample_class]].setdefault(basenameJPG, [])
setdefault(d, key) ==
    [k \in DOMAIN d \cup {key} |-> IF k \in DOMAIN d THEN d[k] ELSE << >>]

\* tile_path = worker_queue.get(); while tile_path: append; get
Drain ==
    /\ pc = "drain"
    /\ worker_queue # << >>
    /\ LET tile_path == Head(worker_queue)
           slide == slide_list[idx]
           class == labels_map[get_sample_label(slide)]
           tile_list == setdefault(tile_dict[class], slide)
       IN  /\ worker_queue' = Tail(worker_queue)
           /\ IF tile_path # None
              THEN /\ tile_dict' = [tile_dict EXCEPT ![class] =
                                       [tile_list EXCEPT ![slide] = Append(@, tile_path)]]
                   /\ collected' = [collected EXCEPT ![idx] = Append(@, tile_path)]
                   /\ UNCHANGED << pc, idx, files_after >>
              ELSE /\ tile_dict' = [tile_dict EXCEPT ![class] = tile_list]
                   /\ files_after' = [files_after EXCEPT ![idx] = files]
                   /\ idx' = idx + 1
                   /\ pc' = "for"
                   /\ UNCHANGED collected
    /\ unchanged_main /\ unchanged_workers
    /\ UNCHANGED << pos, sentinels, queue, unfinished, files, out_buffer,
                    enqueued, shortcut, reported, posted, failed >>

\* the feeder thread of a process writes its oldest buffered item to the pipe
Feed(proc) ==
    /\ out_buffer[proc] # << >>
    /\ worker_queue' = Append(worker_queue, Head(out_buffer[proc]))
    /\ out_buffer' = [out_buffer EXCEPT ![proc] = Tail(@)]
    /\ unchanged_main /\ unchanged_workers
    /\ UNCHANGED << pc, idx, pos, sentinels, tile_dict, queue, unfinished,
                    files, enqueued, shortcut, reported, collected, posted, failed,
                    files_after >>

\* ------------------------------------------------------------ TileWorker
unchanged_by_worker ==
    /\ unchanged_main
    /\ UNCHANGED << pc, idx, pos, sentinels, tile_dict, worker_queue, enqueued, shortcut,
                    collected, posted, failed, files_after >>

\* run() before the loop: open_slide, _get_dz, the stain dictionary of baseimage
WorkerStart(run, w) ==
    /\ wpc[run][w] = "start"
    /\ wpc' = [wpc EXCEPT ![run][w] = "get"]
    /\ unchanged_by_worker
    /\ UNCHANGED << wjob, caught, normalized, taken, acked, skipped, queue,
                    unfinished, files,
                    out_buffer, reported >>

\* the start-up raises (slide or baseimage unreadable): the process ends
WorkerStartRaises(run, w) ==
    /\ wpc[run][w] = "start"
    /\ wpc' = [wpc EXCEPT ![run][w] = "dead"]
    /\ unchanged_by_worker
    /\ UNCHANGED << wjob, caught, normalized, taken, acked, skipped, queue,
                    unfinished, files,
                    out_buffer, reported >>

\* faulty variant of WorkerGet: the job is read and left in the queue
WorkerGetPeek(run, w) ==
    /\ wpc[run][w] = "get"
    /\ queue[run] # << >>
    /\ Head(queue[run]).kind = "job"
    /\ wjob' = [wjob EXCEPT ![run][w] = Head(queue[run])]
    /\ wpc' = [wpc EXCEPT ![run][w] = "job"]
    /\ taken' = [taken EXCEPT ![run] = Append(@, Head(queue[run]))]
    /\ UNCHANGED << acked, skipped >>
    /\ UNCHANGED queue
    /\ unchanged_by_worker
    /\ UNCHANGED << caught, normalized, unfinished, files, out_buffer, reported >>

\* data = self._queue.get() returning a job
WorkerGet(run, w) ==
    /\ wpc[run][w] = "get"
    /\ queue[run] # << >>
    /\ Head(queue[run]).kind = "job"
    /\ wjob' = [wjob EXCEPT ![run][w] = Head(queue[run])]
    /\ wpc' = [wpc EXCEPT ![run][w] = "job"]
    /\ queue' = [queue EXCEPT ![run] = Tail(@)]
    /\ taken' = [taken EXCEPT ![run] = Append(@, Head(queue[run]))]
    /\ UNCHANGED << acked, skipped >>
    /\ unchanged_by_worker
    /\ UNCHANGED << caught, normalized, unfinished, files, out_buffer, reported >>

\* faulty variant of WorkerSentinel: break without task_done
WorkerSentinelUnacked(run, w) ==
    /\ wpc[run][w] = "get"
    /\ queue[run] # << >>
    /\ Head(queue[run]).kind = "None"
    /\ queue' = [queue EXCEPT ![run] = Tail(@)]
    /\ wpc' = [wpc EXCEPT ![run][w] = "exit"]
    /\ unchanged_by_worker
    /\ UNCHANGED << wjob, caught, normalized, taken, acked, skipped, unfinished,
                    files, out_buffer, reported >>

\* data = self._queue.get() returning None: task_done(), break
WorkerSentinel(run, w) ==
    /\ wpc[run][w] = "get"
    /\ queue[run] # << >>
    /\ Head(queue[run]).kind = "None"
    /\ queue' = [queue EXCEPT ![run] = Tail(@)]
    /\ unfinished' = [unfinished EXCEPT ![run] = @ - 1]
    /\ acked' = [acked EXCEPT ![run] = @ + 1]
    /\ wpc' = [wpc EXCEPT ![run][w] = "exit"]
    /\ unchanged_by_worker
    /\ UNCHANGED << wjob, caught, normalized, taken, skipped, files, out_buffer,
                    reported >>

\* how the try block of one job can end: "ok" runs to its end, "get_tile" is an
\* exception of dz.get_tile, "Warning" and "error" are raised by
\* _write_normalized_image before the file exists
Endings == {"ok", "get_tile", "Warning", "error"}

\* faulty variant of AfterJob: no except and no finally clause, an exception
\* ends the worker and leaves the job unacknowledged
AfterJobUncaught(run, w, ending) ==
    /\ unfinished' = [unfinished EXCEPT ![run] = IF ending = "ok" THEN @ - 1 ELSE @]
    /\ acked' = [acked EXCEPT ![run] = IF ending = "ok" THEN @ + 1 ELSE @]
    /\ wpc' = [wpc EXCEPT ![run][w] = IF ending = "ok" THEN "get" ELSE "dead"]
    /\ wjob' = [wjob EXCEPT ![run][w] = NoneJob]

\* how the try statement of a job is left, whatever its ending: the except
\* clauses log, the finally clause calls task_done, while True goes on
AfterJob(run, w, ending) ==
    /\ unfinished' = [unfinished EXCEPT ![run] = @ - 1]
    /\ acked' = [acked EXCEPT ![run] = @ + 1]
    /\ wpc' = [wpc EXCEPT ![run][w] = "get"]
    /\ wjob' = [wjob EXCEPT ![run][w] = NoneJob]

\* faulty variant of WorkerJob: the path is put on out_queue before
\* _write_normalized_image is called, so also when the write raises
WorkerJobPutFirst(run, w, ending) ==
    /\ wpc[run][w] = "job"
    /\ LET job == wjob[run][w]
           tile == Pixels(slide_list[run], job.level, job.col, job.row)
           written == ending # "get_tile" /\ Accepted(tile)
       IN  /\ ending \in {"Warning", "error"} => written
           /\ normalized' = [normalized EXCEPT ![run] =
                                IF written THEN @ \cup {job.outfile} ELSE @]
           /\ files' = IF written /\ ending = "ok" THEN files \cup {job.outfile}
                       ELSE files
           /\ IF written
              THEN /\ OutPut(<<run, w>>, job.outfile)
                   /\ reported' = [reported EXCEPT ![run] = @ \cup {job.outfile}]
              ELSE UNCHANGED << out_buffer, reported >>
           /\ caught' = [caught EXCEPT ![run] = IF ending = "ok" THEN @ ELSE @ + 1]
           /\ skipped' = [skipped EXCEPT ![run] =
                             IF ending = "Warning" THEN Append(@, job.outfile) ELSE @]
    /\ AfterJob(run, w, ending)
    /\ UNCHANGED << queue, taken >>
    /\ unchanged_by_worker

\* faulty variant of WorkerJob: the continue of the Warning handler leaves the
\* try statement without its finally clause, the job is not acknowledged
WorkerJobContinueUnacked(run, w, ending) ==
    /\ wpc[run][w] = "job"
    /\ LET job == wjob[run][w]
           tile == Pixels(slide_list[run], job.level, job.col, job.row)
           written == ending # "get_tile" /\ Accepted(tile)
       IN  /\ ending \in {"Warning", "error"} => written
           /\ normalized' = [normalized EXCEPT ![run] =
                                IF written THEN @ \cup {job.outfile} ELSE @]
           /\ IF written /\ ending = "ok"
              THEN /\ files' = files \cup {job.outfile}
                   /\ OutPut(<<run, w>>, job.outfile)
                   /\ reported' = [reported EXCEPT ![run] = @ \cup {job.outfile}]
              ELSE UNCHANGED << files, out_buffer, reported >>
           /\ caught' = [caught EXCEPT ![run] = IF ending = "ok" THEN @ ELSE @ + 1]
           /\ skipped' = [skipped EXCEPT ![run] =
                             IF ending = "Warning" THEN Append(@, job.outfile) ELSE @]
    /\ IF ending = "Warning"
       THEN /\ wpc' = [wpc EXCEPT ![run][w] = "get"]
            /\ wjob' = [wjob EXCEPT ![run][w] = NoneJob]
            /\ UNCHANGED << unfinished, acked >>
       ELSE AfterJob(run, w, ending)
    /\ UNCHANGED << queue, taken >>
    /\ unchanged_by_worker

\* the body of the loop for one job: fetch, filter, normalize and write, report;
\* get_labelled_tiles passes SaveMasks = False, so no mask is written
WorkerJob(run, w, ending) ==
    /\ wpc[run][w] = "job"
    /\ LET job == wjob[run][w]
           tile == Pixels(slide_list[run], job.level, job.col, job.row)
           written == ending # "get_tile" /\ Accepted(tile)
       IN  /\ ending \in {"Warning", "error"} => written
           /\ normalized' = [normalized EXCEPT ![run] =
                                IF written THEN @ \cup {job.outfile} ELSE @]
           /\ IF written /\ ending = "ok"
              THEN /\ files' = files \cup {job.outfile}
                   /\ OutPut(<<run, w>>, job.outfile)
                   /\ reported' = [reported EXCEPT ![run] = @ \cup {job.outfile}]
              ELSE UNCHANGED << files, out_buffer, reported >>
           /\ caught' = [caught EXCEPT ![run] = IF ending = "ok" THEN @ ELSE @ + 1]
           /\ skipped' = [skipped EXCEPT ![run] =
                             IF ending = "Warning" THEN Append(@, job.outfile) ELSE @]
    /\ AfterJob(run, w, ending)
    /\ UNCHANGED << queue, taken >>
    /\ unchanged_by_worker

\* ------------------------------------------------------------ specification
NextTiling ==
    \/ ForSlide
    \/ TilerInit
    \/ TilerInitRaises
    \/ RunImage
    \/ RunImageRaises
    \/ WriteTile
    \/ GetDzi
    \/ GetDziRaises
    \/ ShutdownPut
    \/ ShutdownJoin
    \/ Drain
    \/ \E run \in Runs, w \in Workers : WorkerStart(run, w)
    \/ \E run \in Runs, w \in Workers : WorkerStartRaises(run, w)
    \/ \E run \in Runs, w \in Workers : WorkerGet(run, w)
    \/ \E run \in Runs, w \in Workers : WorkerSentinel(run, w)
    \/ \E run \in Runs, w \in Workers : WorkerJob(run, w, "ok")
    \/ \E run \in Runs, w \in Workers : WorkerJob(run, w, "get_tile")
    \/ \E run \in Runs, w \in Workers : WorkerJob(run, w, "Warning")
    \/ \E run \in Runs, w \in Workers : WorkerJob(run, w, "error")
    \/ \E proc \in DOMAIN out_buffer : Feed(proc)

Next ==
    NextTiling

Spec ==
    Init /\ [][Next]_vars

\* ------------------------------------------- the tiling under fair scheduling
\* at least one worker, and every worker completes its start-up
InitFair ==
    Init /\ workers >= 1

\* the steps of the main process
MainStep ==
    \/ ForSlide
    \/ TilerInit
    \/ TilerInitRaises
    \/ RunImage
    \/ RunImageRaises
    \/ WriteTile
    \/ GetDzi
    \/ GetDziRaises
    \/ ShutdownPut
    \/ ShutdownJoin
    \/ Drain

\* the steps of one TileWorker process whose start-up does not raise; the
\* processing of a job ends, in one of its endings
WorkerStep(run, w) ==
    /\ run \in Runs
    /\ w \in Workers
    /\ \/ WorkerStart(run, w)
       \/ WorkerGet(run, w)
       \/ WorkerSentinel(run, w)
       \/ \E ending \in Endings : WorkerJob(run, w, ending)

\* the feeder thread of a worker process
WorkerFeed(run, w) ==
    run \in Runs /\ w \in Workers /\ Feed(<<run, w>>)

NextFair ==
    \/ ForSlide
    \/ TilerInit
    \/ TilerInitRaises
    \/ RunImage
    \/ RunImageRaises
    \/ WriteTile
    \/ GetDzi
    \/ GetDziRaises
    \/ ShutdownPut
    \/ ShutdownJoin
    \/ Drain
    \/ \E run \in Runs, w \in Workers : WorkerStart(run, w)
    \/ \E run \in Runs, w \in Workers : WorkerGet(run, w)
    \/ \E run \in Runs, w \in Workers : WorkerSentinel(run, w)
    \/ \E run \in Runs, w \in Workers : WorkerJob(run, w, "ok")
    \/ \E run \in Runs, w \in Workers : WorkerJob(run, w, "get_tile")
    \/ \E run \in Runs, w \in Workers : WorkerJob(run, w, "Warning")
    \/ \E run \in Runs, w \in Workers : WorkerJob(run, w, "error")
    \/ \E proc \in DOMAIN out_buffer : Feed(proc)

\* the operating system runs every process and every feeder thread that can
\* take a step: the main process, each worker, each feeder
Fairness ==
    /\ WF_vars(MainStep)
    /\ WF_vars(Feed(Main))
    /\ \A run \in 1 .. MaxWorkers, w \in 1 .. MaxWorkers :
          WF_vars(WorkerStep(run, w)) /\ WF_vars(WorkerFeed(run, w))

SpecFair ==
    InitFair /\ [][NextFair]_vars /\ Fairness

InitTilingIdle ==
    /\ slide_list = << >> /\ workers = 0 /\ magnification = 0
    /\ properties = << >> /\ img_extension = "" /\ shortcut = << >>
    /\ pc = "off" /\ idx = 1 /\ pos = 0
    /\ sentinels = << >> /\ tile_dict = << >> /\ queue = << >>
    /\ unfinished = << >> /\ wpc = << >> /\ wjob = << >>
    /\ files = {} /\ out_buffer = << >> /\ worker_queue = << >>
    /\ enqueued = << >> /\ taken = << >> /\ acked = << >> /\ skipped = << >>
    /\ reported = << >> /\ collected = << >>
    /\ posted = << >> /\ failed = << >> /\ caught = << >>
    /\ normalized = << >> /\ files_after = << >>

\* ---------------------------------------------------- get_train_valid_split
\* validation_split as (numerator, denominator)
Splits == {<<0, 1>>, <<1, 5>>, <<1, 3>>, <<1, 2>>, <<2, 3>>, <<1, 1>>}

\* int(n * validation_split)
IntTimes(n, split) == (n * split[1]) \div split[2]

\* faulty variant of PySliceTo: the slice stops one element early
PySliceToShort(list, k) ==
    LET stop == IF k >= 0 THEN k ELSE Len(list) + k
        last == IF stop - 1 < 0 THEN 0 ELSE IF stop - 1 > Len(list) THEN Len(list) ELSE stop - 1
    IN  SubSeq(list, 1, last)

\* list[:k] of Python: a negative k counts from the end
PySliceTo(list, k) ==
    LET stop == IF k >= 0 THEN k ELSE Len(list) + k
        last == IF stop < 0 THEN 0 ELSE IF stop > Len(list) THEN Len(list) ELSE stop
    IN  SubSeq(list, 1, last)

\* list[k:] of Python: a negative k counts from the end, and -0 is 0
PySliceFrom(list, k) ==
    LET start == IF k >= 0 THEN k ELSE Len(list) + k
        first == IF start < 0 THEN 0 ELSE IF start > Len(list) THEN Len(list) ELSE start
    IN  SubSeq(list, first + 1, Len(list))

\* the orders random.shuffle can leave a list in
Shuffles(list) ==
    {p \in [1 .. Len(list) -> Range(list)] :
        \A j, k \in 1 .. Len(list) : j # k => p[j] # p[k]}

\* file_labels[label] after the first loop: the files of the label, in order
file_labels(label) ==
    SelectSeq(sp_files, LAMBDA f : sp_class[f] = label)

\* file_labels.keys(): the labels in the order their first file comes
RECURSIVE KeysFrom(_, _)
KeysFrom(k, seen) ==
    IF k > Len(sp_files) THEN << >>
    ELSE IF sp_class[sp_files[k]] \in seen THEN KeysFrom(k + 1, seen)
    ELSE <<sp_class[sp_files[k]]>> \o KeysFrom(k + 1, seen \cup {sp_class[sp_files[k]]})

InitSplit ==
    /\ \E n \in 0 .. MaxFiles :
          /\ sp_files = [k \in 1 .. n |-> k]
          /\ sp_class \in [1 .. n -> {"A", "B"}]
    /\ sp_split \in Splits
    /\ sp_pc = "files"
    /\ sp_todo = << >>
    /\ sp_train = << >>
    /\ sp_valid = << >>
    /\ sp_take = << >>
    /\ InitTilingIdle /\ InitAugmentIdle /\ InitMoreIdle

\* for file in files: file_labels.setdefault(sample_class, []).append(file)
SplitGroup ==
    /\ sp_pc = "files"
    /\ sp_todo' = KeysFrom(1, {})
    /\ sp_pc' = "labels"
    /\ UNCHANGED << sp_files, sp_class, sp_split, sp_train, sp_valid, sp_take,
                    vars_tiling, vars_augment, vars_more >>

\* one label of the second loop: num_val, num_train, shuffle, the two extends
SplitLabel ==
    /\ sp_pc = "labels"
    /\ sp_todo # << >>
    /\ LET label == Head(sp_todo)
           num_val == IntTimes(Len(file_labels(label)), sp_split)
           num_train == Len(file_labels(label)) - num_val
       IN  \E shuffled \in Shuffles(file_labels(label)) :
              /\ sp_train' = sp_train \o PySliceTo(shuffled, num_train)
              /\ sp_valid' = sp_valid \o PySliceFrom(shuffled, 0 - num_val)
              /\ sp_take' = [l \in DOMAIN sp_take \cup {label} |->
                                IF l = label
                                THEN [train |-> PySliceTo(shuffled, num_train),
                                      valid |-> PySliceFrom(shuffled, 0 - num_val)]
                                ELSE sp_take[l]]
    /\ sp_todo' = Tail(sp_todo)
    /\ UNCHANGED << sp_files, sp_class, sp_split, sp_pc, vars_tiling, vars_augment,
                    vars_more >>

\* return train_files, validation_files
SplitReturn ==
    /\ sp_pc = "labels"
    /\ sp_todo = << >>
    /\ sp_pc' = "return"
    /\ UNCHANGED << sp_files, sp_class, sp_split, sp_todo, sp_train, sp_valid,
                    sp_take, vars_tiling, vars_augment, vars_more >>

NextSplit ==
    \/ SplitGroup
    \/ SplitLabel
    \/ SplitReturn

SpecSplit ==
    InitSplit /\ [][NextSplit]_vars

\* ------------------------------- slides_to_tiles / calc_augmentation_factor
\* sys.maxsize, as the largest integer TLC represents
sys_maxsize == 2147483647

\* the classes of labels_map, in dict order
AugClasses == <<0, 1, 2>>

\* tile totals a class can have
TileCounts == (0 .. MaxCount) \cup {16, 17, 197, 483, 1120}

\* faulty variant of Round: a half is rounded up, as round() of Python 2 did
RoundHalfUp(p, q) ==
    LET f == p \div q
        r == p % q
    IN  IF 2 * r < q THEN f ELSE f + 1

\* round(p / q) of Python 3 for p >= 0, q > 0: half to even
Round(p, q) ==
    LET f == p \div q
        r == p % q
    IN  IF 2 * r < q THEN f
        ELSE IF 2 * r > q THEN f + 1
        ELSE IF f % 2 = 0 THEN f ELSE f + 1

\* calc_augmentation_factor: class -> (tile count, augmentation factor)
calc_augmentation_factor(class_by_tile_count_dict, smallest_num_tiles) ==
    [key \in DOMAIN class_by_tile_count_dict |->
        LET value == class_by_tile_count_dict[key]
        IN  IF value = smallest_num_tiles
            THEN <<value, 8>>
            ELSE <<value, Round(smallest_num_tiles * 8, value)>>]

InitAugment ==
    /\ au_counts \in [Range(AugClasses) -> TileCounts]
    /\ au_pc = "count"
    /\ au_todo = AugClasses
    /\ au_smallest = sys_maxsize
    /\ au_count_dict = << >>
    /\ au_new = << >>
    /\ InitTilingIdle /\ InitSplitIdle /\ InitMoreIdle

\* for label, slides in train_tiles.items(): num_tiles, the dict, the minimum
CountTiles ==
    /\ au_pc = "count"
    /\ au_todo # << >>
    /\ LET label == Head(au_todo)
           num_tiles == au_counts[label]
       IN  /\ au_count_dict' = [l \in DOMAIN au_count_dict \cup {label} |->
                                   IF l = label THEN num_tiles ELSE au_count_dict[l]]
           /\ au_smallest' = IF num_tiles < au_smallest THEN num_tiles ELSE au_smallest
    /\ au_todo' = Tail(au_todo)
    /\ UNCHANGED << au_counts, au_pc, au_new, vars_tiling, vars_split, vars_more >>

\* new_class_by_tile_count_dict = calc_augmentation_factor(...)
CalcAugmentationFactor ==
    /\ au_pc = "count"
    /\ au_todo = << >>
    /\ au_new' = calc_augmentation_factor(au_count_dict, au_smallest)
    /\ au_pc' = "return"
    /\ UNCHANGED << au_counts, au_todo, au_smallest, au_count_dict,
                    vars_tiling, vars_split, vars_more >>

NextAugment ==
    \/ CountTiles
    \/ CalcAugmentationFactor

SpecAugment ==
    InitAugment /\ [][NextAugment]_vars

\* ------------------------------------------ augment_tiles_based_on_factor
\* everything the actions of this function leave alone
others_engine ==
    << vars_tiling, vars_split, vars_augment, vars_filter, vars_stain,
       vars_labels >>

\* tiles_dict.items() and slides.items(): (label, slide) in visiting order
EngineSlides == << <<0, 1>>, <<1, 2>> >>

\* augmentation factors of a class: what calc_augmentation_factor can return
Factors == {0, 1, 2, 5, 8}

\* the k-th tile of a slide as the tiler named it: no suffix before the extension
OriginalTile(slide, k) ==
    [base |-> <<slide, k, 0>>, suffix |-> << >>]

\* faulty variant of augment_file_name: no "_mirror" in the name
augment_file_name_unmirrored(file_name, i) ==
    [base |-> file_name.base,
     suffix |-> Append(file_name.suffix, <<(90 * i) % 360, FALSE>>)]

\* file_name[:idx] + "_" + str(rotate) + mirror + file_name[idx:], with
\* rotate = (90 * i) % 360 and mirror = "_mirror" if i > 3
augment_file_name(file_name, i) ==
    [base |-> file_name.base,
     suffix |-> Append(file_name.suffix, <<(90 * i) % 360, i > 3>>)]

\* for i in range(1, augmentation_factor): the names, in order
AugmentNames(file_name, augmentation_factor) ==
    [i \in 1 .. augmentation_factor - 1 |-> augment_file_name(file_name, i)]

InitEngine ==
    /\ \E n1, n2 \in 0 .. MaxTiles :
          /\ ag_tiles = [l \in {0, 1} |->
                IF l = 0 THEN [s \in {1} |-> [k \in 1 .. n1 |-> OriginalTile(1, k)]]
                         ELSE [s \in {2} |-> [k \in 1 .. n2 |-> OriginalTile(2, k)]]]
          /\ \E pre \in SUBSET {augment_file_name(OriginalTile(1, 1), 1)} :
                ag_files = {OriginalTile(1, k) : k \in 1 .. n1}
                           \cup {OriginalTile(2, k) : k \in 1 .. n2} \cup pre
          /\ \E f0, f1 \in Factors :
                ag_factor = [l \in {0, 1} |-> IF l = 0 THEN <<n1, f0>> ELSE <<n2, f1>>]
    /\ ag_pc = "idle"
    /\ ag_call = 0
    /\ ag_todo = << >>
    /\ ag_k = 0
    /\ ag_new_list = << >>
    /\ ag_after = << >>
    /\ InitTilingIdle /\ InitSplitIdle /\ InitAugmentIdle /\ InitFilterIdle
    /\ InitStainIdle /\ InitLabelsIdle

\* augment_tiles_based_on_factor(tiles_dict, class_by_tile_count_dict) is
\* called, the second time on the dictionary the first call left
AugmentCall ==
    /\ ag_pc = "idle"
    /\ ag_call < 2
    /\ ag_call' = ag_call + 1
    /\ ag_todo' = EngineSlides
    /\ ag_pc' = "slides"
    /\ UNCHANGED << ag_tiles, ag_factor, ag_files, ag_k, ag_new_list, ag_after,
                    others_engine >>

\* for _slide, tiles_list in slides.items(): new_list = []
AugmentSlide ==
    /\ ag_pc = "slides"
    /\ ag_todo # << >>
    /\ ag_k' = 1
    /\ ag_new_list' = << >>
    /\ ag_pc' = "tiles"
    /\ UNCHANGED << ag_tiles, ag_factor, ag_files, ag_call, ag_todo, ag_after,
                    others_engine >>

\* one file_name of tiles_list: every i of range(1, augmentation_factor) saves
\* the augmented file unless it exists, and appends its name to new_list
AugmentFile ==
    /\ ag_pc = "tiles"
    /\ LET label == Head(ag_todo)[1]
           tiles_list == ag_tiles[label][Head(ag_todo)[2]]
       IN  /\ ag_k <= Len(tiles_list)
           /\ LET names == AugmentNames(tiles_list[ag_k], ag_factor[label][2])
              IN  /\ ag_files' = ag_files \cup Range(names)
                  /\ ag_new_list' = ag_new_list \o names
    /\ ag_k' = ag_k + 1
    /\ UNCHANGED << ag_tiles, ag_factor, ag_pc, ag_call, ag_todo, ag_after,
                    others_engine >>

\* tiles_list.extend(new_list), after the last file_name of the slide
AugmentExtend ==
    /\ ag_pc = "tiles"
    /\ LET label == Head(ag_todo)[1]
           slide == Head(ag_todo)[2]
       IN  /\ ag_k > Len(ag_tiles[label][slide])
           /\ ag_tiles' = [ag_tiles EXCEPT ![label][slide] = @ \o ag_new_list]
    /\ ag_todo' = Tail(ag_todo)
    /\ ag_pc' = "slides"
    /\ UNCHANGED << ag_factor, ag_files, ag_call, ag_k, ag_new_list, ag_after,
                    others_engine >>

\* return, after the last slide of the last label
AugmentReturn ==
    /\ ag_pc = "slides"
    /\ ag_todo = << >>
    /\ ag_after' = Append(ag_after, [files |-> ag_files, tiles |-> ag_tiles])
    /\ ag_pc' = "idle"
    /\ UNCHANGED << ag_tiles, ag_factor, ag_files, ag_call, ag_todo, ag_k,
                    ag_new_list, others_engine >>

NextEngine ==
    \/ AugmentCall
    \/ AugmentSlide
    \/ AugmentFile
    \/ AugmentExtend
    \/ AugmentReturn

SpecEngine ==
    InitEngine /\ [][NextEngine]_vars

\* ------------------------------------------- TileWorker.run, the tile filter
others_filter ==
    << vars_tiling, vars_split, vars_augment, vars_engine, vars_stain,
       vars_labels >>

\* tiles get_tile can return: distinct luminance values and the percentage of
\* pixels below 220; one value means all pixels are on one side of 220
TilePixels ==
    {px \in [values : {1, 2, 10, 11, 64}, below : {0, 1, 49, 50, 51, 99, 100}] :
        px.values = 1 => px.below \in {0, 100}}

\* values of the background, ROIpc and PercentMasked arguments, in percent
Thresholds == {0, 49, 50, 51, 100}

InitFilter ==
    /\ fl_pixels \in TilePixels
    /\ fl_Bkg \in Thresholds
    /\ fl_ROIpc \in {0, 50, 100}
    /\ fl_PercentMasked \in {0, 50, 100}
    /\ fl_pc = "get"
    /\ fl_fetched = FALSE
    /\ fl_normalized = FALSE
    /\ fl_files = {}
    /\ fl_out = << >>
    /\ fl_caught = 0
    /\ fl_done = 0
    /\ InitTilingIdle /\ InitSplitIdle /\ InitAugmentIdle /\ InitEngineIdle
    /\ InitStainIdle /\ InitLabelsIdle

\* data = self._queue.get() returning the job
FilterGet ==
    /\ fl_pc = "get"
    /\ fl_pc' = "job"
    /\ UNCHANGED << fl_pixels, fl_Bkg, fl_ROIpc, fl_PercentMasked, fl_fetched,
                    fl_normalized, fl_files, fl_out, fl_caught, fl_done,
                    others_filter >>

\* the try statement of the job: get_tile, the statistics of the tile, the two
\* tests, _write_normalized_image and out_queue.put; except, finally
FilterJob(ending) ==
    /\ fl_pc = "job"
    /\ LET tile == TileStats(fl_pixels)
           written == /\ ending # "get_tile"
                      /\ Accepts(tile, fl_Bkg, fl_ROIpc, fl_PercentMasked)
       IN  /\ ending \in {"Warning", "error"} => written
           /\ fl_fetched' = (ending # "get_tile")
           /\ fl_normalized' = written
           /\ fl_files' = IF written /\ ending = "ok" THEN {"outfile"} ELSE {}
           /\ fl_out' = IF written /\ ending = "ok" THEN <<"outfile">> ELSE << >>
           /\ fl_caught' = IF ending = "ok" THEN 0 ELSE 1
    /\ fl_done' = fl_done + 1
    /\ fl_pc' = "done"
    /\ UNCHANGED << fl_pixels, fl_Bkg, fl_ROIpc, fl_PercentMasked, others_filter >>

NextFilter ==
    \/ FilterGet
    \/ FilterJob("ok")
    \/ FilterJob("get_tile")
    \/ FilterJob("Warning")
    \/ FilterJob("error")

SpecFilter ==
    InitFilter /\ [][NextFilter]_vars

\* ---------------------------------------- TileWorker._stain_dict_Vahadane
others_stain ==
    << vars_tiling, vars_split, vars_augment, vars_engine, vars_filter,
       vars_labels >>

\* the integer that stands for a loading of 1.0
UnitLoad == 3

\* sum of the squares of a vector
SumSq(v) ==
    v[1] * v[1] + v[2] * v[2] + v[3] * v[3]

\* the atoms spams.trainDL(..., K=2, modeD=0, posD=True) can return: three
\* non-negative loadings of Euclidean norm at most 1
Atoms ==
    {v \in (0 .. UnitLoad) \X (0 .. UnitLoad) \X (0 .. UnitLoad) :
        SumSq(v) <= UnitLoad * UnitLoad}

\* a row as the decomposition returns it
Row(v) ==
    [num |-> v, den2 |-> 1]

\* row / np.linalg.norm(row): the row divided by the root of SumSq(row); a
\* zero row gives 0 / 0, which den2 = 0 stands for
Normalized(row) ==
    [num |-> row.num, den2 |-> row.den2 * SumSq(row.num)]

\* the second atom can be empty (the comment before the normalization), the
\* first one is taken to be in use
InitStain ==
    /\ \E v1 \in Atoms \ {<<0, 0, 0>>}, v2 \in Atoms : st_W = <<Row(v1), Row(v2)>>
    /\ st_pc = "swap"
    /\ InitTilingIdle /\ InitSplitIdle /\ InitAugmentIdle /\ InitEngineIdle
    /\ InitFilterIdle /\ InitLabelsIdle

\* if WisHisHisv[0, 0] < WisHisHisv[1, 0]: WisHisHisv = WisHisHisv[[1, 0], :]
StainSwap ==
    /\ st_pc = "swap"
    /\ st_W' = IF st_W[1].num[1] < st_W[2].num[1] THEN <<st_W[2], st_W[1]>> ELSE st_W
    /\ st_pc' = "normalize"
    /\ UNCHANGED others_stain

\* if not np.array_equal(WisHisHisv[1], [0, 0, 0]): every row is divided by
\* its norm; return WisHisHisv
StainNormalize ==
    /\ st_pc = "normalize"
    /\ st_W' = IF st_W[2].num # <<0, 0, 0>>
               THEN <<Normalized(st_W[1]), Normalized(st_W[2])>>
               ELSE st_W
    /\ st_pc' = "return"
    /\ UNCHANGED others_stain

NextStain ==
    \/ StainSwap
    \/ StainNormalize

SpecStain ==
    InitStain /\ [][NextStain]_vars

\* ------------------------------------- slides_to_tiles, labels of the slides
others_labels ==
    << vars_tiling, vars_split, vars_augment, vars_engine, vars_filter,
       vars_stain >>

\* labels a line of the label file can name; "X" is not in labels_map
FileLabels == {"A", "B", "X"}

\* what glob(slidepath) can return; no line of the label file names slide 3
FileLists == {<<1>>, <<1, 2>>, <<2, 1>>, <<1, 3>>, <<3, 1>>}

\* get_sample_label(sample, sample_labels) for a dict given as the sequence of
\* its (label, samples) items: the first label listing the sample
find_sample_label(sample, dict) ==
    LET hits == {k \in DOMAIN dict : sample \in Range(dict[k][2])}
    IN  IF hits = {} THEN "RuntimeError"
        ELSE dict[CHOOSE k \in hits : \A j \in hits : k <= j][1]

\* dict.setdefault(label, []).append(sample)
setdefault_append(dict, label, sample) ==
    IF \E k \in DOMAIN dict : dict[k][1] = label
    THEN [k \in DOMAIN dict |->
            IF dict[k][1] = label THEN <<label, Append(dict[k][2], sample)>> ELSE dict[k]]
    ELSE Append(dict, <<label, <<sample>>>>)

InitLabels ==
    /\ \E n \in 0 .. MaxRecords : lb_records \in [1 .. n -> {1, 2} \X FileLabels]
    /\ lb_files \in FileLists
    /\ lb_pc = "labelfile"
    /\ lb_k = 1
    /\ lb_sample_labels = << >>
    /\ lb_dirs = {}
    /\ lb_tilers = << >>
    /\ InitTilingIdle /\ InitSplitIdle /\ InitAugmentIdle /\ InitEngineIdle
    /\ InitFilterIdle /\ InitStainIdle

\* for line in labelfile: a label not in labels_map raises RuntimeError
ReadLabelLine ==
    /\ lb_pc = "labelfile"
    /\ lb_k <= Len(lb_records)
    /\ LET sample == lb_records[lb_k][1]
           label == lb_records[lb_k][2]
       IN  IF label \notin DOMAIN labels_map
           THEN /\ lb_pc' = "raise"
                /\ UNCHANGED << lb_k, lb_sample_labels >>
           ELSE /\ lb_sample_labels' = setdefault_append(lb_sample_labels, label, sample)
                /\ lb_k' = lb_k + 1
                /\ UNCHANGED lb_pc
    /\ UNCHANGED << lb_records, lb_files, lb_dirs, lb_tilers, others_labels >>

\* for l, _ in labels_map.items(): os.makedirs(label_dir); files = glob(...)
MakeLabelDirs ==
    /\ lb_pc = "labelfile"
    /\ lb_k > Len(lb_records)
    /\ lb_dirs' = DOMAIN labels_map
    /\ lb_pc' = "split"
    /\ lb_k' = 1
    /\ UNCHANGED << lb_records, lb_files, lb_sample_labels, lb_tilers,
                    others_labels >>

\* faulty variant of SplitFile: a file without a label is left out of the split
SplitFileSkips ==
    /\ lb_pc = "split"
    /\ lb_k <= Len(lb_files)
    /\ lb_k' = lb_k + 1
    /\ UNCHANGED << lb_pc, lb_records, lb_files, lb_sample_labels, lb_dirs,
                    lb_tilers, others_labels >>

\* get_train_valid_split, for file in files: get_sample_label raises
\* RuntimeError for a slide that no label lists
SplitFile ==
    /\ lb_pc = "split"
    /\ lb_k <= Len(lb_files)
    /\ IF find_sample_label(lb_files[lb_k], lb_sample_labels) = "RuntimeError"
       THEN lb_pc' = "raise" /\ UNCHANGED lb_k
       ELSE lb_k' = lb_k + 1 /\ UNCHANGED lb_pc
    /\ UNCHANGED << lb_records, lb_files, lb_sample_labels, lb_dirs, lb_tilers,
                    others_labels >>

\* the split is returned and get_labelled_tiles is called, for the training
\* slides and then for the validation slides
GetLabelledTiles ==
    /\ lb_pc = "split"
    /\ lb_k > Len(lb_files)
    /\ lb_pc' = "tiling"
    /\ lb_k' = 1
    /\ UNCHANGED << lb_records, lb_files, lb_sample_labels, lb_dirs, lb_tilers,
                    others_labels >>

\* get_labelled_tiles, for filename in slide_list: get_sample_label outside the
\* try statement, then the tiler of the slide with its workers
TileSlide ==
    /\ lb_pc = "tiling"
    /\ lb_k <= Len(lb_files)
    /\ IF find_sample_label(lb_files[lb_k], lb_sample_labels) = "RuntimeError"
       THEN lb_pc' = "raise" /\ UNCHANGED << lb_k, lb_tilers >>
       ELSE /\ lb_tilers' = Append(lb_tilers, lb_files[lb_k])
            /\ lb_k' = lb_k + 1
            /\ UNCHANGED lb_pc
    /\ UNCHANGED << lb_records, lb_files, lb_sample_labels, lb_dirs, others_labels >>

\* return train_tiles, validation_tiles
TilesReturn ==
    /\ lb_pc = "tiling"
    /\ lb_k > Len(lb_files)
    /\ lb_pc' = "return"
    /\ UNCHANGED << lb_records, lb_files, lb_k, lb_sample_labels, lb_dirs,
                    lb_tilers, others_labels >>

NextLabels ==
    \/ ReadLabelLine
    \/ MakeLabelDirs
    \/ SplitFile
    \/ GetLabelledTiles
    \/ TileSlide
    \/ TilesReturn

SpecLabels ==
    InitLabels /\ [][NextLabels]_vars

\* ------------------------------------------------------------------ claims
\* run() of the tiler of run r has returned
RunReturned(r) ==
    failed[r] = "no" /\ (r < idx \/ (r = idx /\ pc = "drain"))

\* the items put on the job queue of run r, in order
Puts(r) ==
    enqueued[r] \o [k \in 1 .. sentinels[r] |-> NoneJob]

\* C1: a run whose run() returned has posted exactly one terminal sentinel on
\* worker_queue, and a posted sentinel means one sentinel per worker was put on
\* the job queue and every item put on it has been acknowledged (join returned)
C1_TerminalAfterJoin ==
    \A r \in Runs :
        /\ posted[r] <= 1
        /\ RunReturned(r) => posted[r] = 1
        /\ posted[r] = 1 =>
              /\ sentinels[r] = workers
              /\ unfinished[r] = 0
              /\ queue[r] = << >>
              /\ \A w \in Workers : wpc[r][w] # "job"

C1_Witness ==
    /\ pc = "drain"
    /\ posted[idx] = 1
    /\ workers = 2
    /\ Len(enqueued[idx]) >= 2

\* C2: when the drain of a run stops at the terminal sentinel, every path the
\* run put on worker_queue has been collected and worker_queue is empty
C2_DrainReceivesAll ==
    \A r \in Runs :
        (failed[r] = "no" /\ r < idx) =>
            /\ reported[r] \subseteq Range(collected[r])
            /\ (pc = "for" /\ idx = r + 1) =>
                  /\ worker_queue = << >>
                  /\ \A w \in Workers : out_buffer[<<r, w>>] = << >>

\* C3: an exception raised while a worker processes a job is caught in the
\* loop: that job is acknowledged, the worker is back at queue.get(), and no
\* other job, worker or queue is touched
C3_JobExceptionCaught ==
    [][\A r \in Runs : caught'[r] # caught[r] =>
          \E w \in Workers :
              /\ wpc[r][w] = "job" /\ wpc'[r][w] = "get"
              /\ unfinished'[r] = unfinished[r] - 1
              /\ \A r2 \in Runs : r2 # r => unfinished'[r2] = unfinished[r2]
              /\ \A r2 \in Runs, w2 \in Workers :
                    <<r2, w2>> # <<r, w>> =>
                        /\ wpc'[r2][w2] = wpc[r2][w2]
                        /\ wjob'[r2][w2] = wjob[r2][w2]
              /\ queue' = queue
              /\ files' = files
              /\ reported' = reported]_vars

C3_Witness ==
    /\ workers = 2
    /\ caught[1] >= 1
    /\ reported[1] # {}
    /\ wpc[1][1] = "exit"
    /\ wpc[1][2] = "exit"

\* every tile path in tile_dict
AllTiles ==
    UNION {UNION {Range(tile_dict[c][s]) : s \in DOMAIN tile_dict[c]} :
              c \in DOMAIN tile_dict}

\* C4: a slide whose tiling raised contributes no tile to tile_dict, under its
\* own key or under another slide's
C4_FailedSlideNoTiles ==
    \A r \in Runs :
        (failed[r] # "no" /\ \A q \in Runs : q # r => slide_list[q] # slide_list[r]) =>
            \A p \in AllTiles : p[1] # slide_list[r]

\* the producer is at a put on the job queue of the current run
AtPut ==
    \/ /\ pc = "write_tiles"
       /\ pos <= Len(WriteTilesOrder(magnification))
       /\ LET a == WriteTilesOrder(magnification)[pos]
          IN  tilename(slide_list[idx], a.col, a.row) \notin files
    \/ pc = "shutdown" /\ sentinels[idx] < workers

\* the job queue is first-in first-out and loses nothing: it holds the newest
\* of the items put, and every unacknowledged item is in it or with a worker
NothingDropped(r) ==
    /\ Len(queue[r]) <= Len(Puts(r))
    /\ queue[r] = SubSeq(Puts(r), Len(Puts(r)) - Len(queue[r]) + 1, Len(Puts(r)))
    /\ unfinished[r] = Len(queue[r]) + Cardinality({w \in Workers : wpc[r][w] = "job"})

\* C5 as stated: no job queue ever holds more than 2 * workers items
C5_AtMostTwicePerWorker ==
    \A r \in Runs : Len(queue[r]) <= 2 * workers

\* C5 amended: with at least one worker a job queue never holds more than
\* 2 * workers items, a put happens only below that, nothing put is dropped,
\* and a producer blocked on the full queue can put once a worker took an item
C5_Backpressure ==
    /\ \A r \in Runs : workers >= 1 => Len(queue[r]) <= 2 * workers
    /\ \A r \in Runs : NothingDropped(r)
    /\ [][/\ \A r \in Runs :
               /\ workers >= 1 => Len(queue'[r]) <= 2 * workers
               /\ NothingDropped(r)'
               /\ (workers >= 1 /\ Len(queue'[r]) > Len(queue[r])) =>
                      Len(queue[r]) < 2 * workers
          /\ (workers >= 1 /\ AtPut /\ Full(idx) /\ Len(queue'[idx]) < Len(queue[idx])) =>
                 (AtPut /\ ~Full(idx))']_vars

C5_Witness ==
    /\ workers = 1
    /\ AtPut
    /\ Full(idx)
    /\ pc = "write_tiles"
    /\ NoDuplicates(queue[idx])

\* the output paths of the jobs put on the job queue of run r
Outfiles(r) ==
    [k \in DOMAIN enqueued[r] |-> enqueued[r][k].outfile]

\* C6: no two jobs of a run have the same output path, and no path is twice
\* in what the drain of the run collected
C6_OneJobPerPath ==
    \A r \in Runs : NoDuplicates(Outfiles(r)) /\ NoDuplicates(collected[r])

\* both runs of the list (1, 1) have completed
RerunDone ==
    /\ slide_list = <<1, 1>>
    /\ idx = 3
    /\ failed[1] = "no"
    /\ failed[2] = "no"

Of(label, split) ==
    {f \in Range(split) : sp_class[f] = label}

\* C8: the two splits partition the files, and a label with n files gives
\* int(n * validation_split) of them to validation and the others to train
C8_SplitPartitions ==
    sp_pc = "return" =>
        /\ Range(sp_train) \cap Range(sp_valid) = {}
        /\ Range(sp_train) \cup Range(sp_valid) = Range(sp_files)
        /\ Len(sp_train) + Len(sp_valid) = Len(sp_files)
        /\ \A label \in DOMAIN sp_take :
              LET n == Len(file_labels(label))
              IN  /\ Len(sp_take[label].valid) = IntTimes(n, sp_split)
                  /\ Len(sp_take[label].train) = n - IntTimes(n, sp_split)

\* a label has at least 1 / validation_split files
AtLeastInverse(label) ==
    /\ sp_split[1] > 0
    /\ Len(file_labels(label)) * sp_split[1] >= sp_split[2]

\* C9 as stated: a label with at least 1 / validation_split files has a file
\* in train and a file in validation
C9_BothSplits ==
    sp_pc = "return" =>
        \A label \in DOMAIN sp_take :
            AtLeastInverse(label) =>
                Of(label, sp_train) # {} /\ Of(label, sp_valid) # {}

\* C9 amended: the same for a validation_split below 1
C9_BothSplitsBelowOne ==
    sp_pc = "return" =>
        \A label \in DOMAIN sp_take :
            (AtLeastInverse(label) /\ sp_split[1] < sp_split[2]) =>
                Of(label, sp_train) # {} /\ Of(label, sp_valid) # {}

C9_Witness ==
    /\ sp_pc = "return"
    /\ sp_split = <<1, 2>>
    /\ Len(file_labels("A")) = 2
    /\ Len(file_labels("B")) = 1
    /\ Cardinality(Of("A", sp_train)) = 1
    /\ Cardinality(Of("A", sp_valid)) = 1

\* C10: every class gets a factor of at least 1, and a class with the fewest
\* tiles gets 8
C10_FactorAtLeastOne ==
    au_pc = "return" =>
        \A c \in DOMAIN au_new :
            /\ au_new[c][2] >= 1
            /\ (\A d \in DOMAIN au_counts : au_counts[c] <= au_counts[d]) =>
                   au_new[c][2] = 8

\* the smallest tile count over all classes
MinCount ==
    CHOOSE m \in Range(au_counts) : \A c \in DOMAIN au_counts : m <= au_counts[c]

\* f is the integer nearest to p / q, the even one of the two when p / q is
\* halfway between them
IsNearest(f, p, q) ==
    LET d == IF f * q >= p THEN f * q - p ELSE p - f * q
    IN  /\ 2 * d <= q
        /\ 2 * d = q => f % 2 = 0

\* C11: calc_augmentation_factor returns for each class its tile count n
\* unchanged, with the factor 8 when n is the minimum m over all classes and
\* round(m * 8 / n) otherwise; the counts 483, 1120, 197 give 3, 1, 8
C11_FactorIsRounded ==
    au_pc = "return" =>
        /\ DOMAIN au_new = DOMAIN au_counts
        /\ \A c \in DOMAIN au_new :
              /\ au_new[c][1] = au_counts[c]
              /\ au_counts[c] = MinCount => au_new[c][2] = 8
              /\ au_counts[c] # MinCount =>
                     IsNearest(au_new[c][2], MinCount * 8, au_counts[c])
        /\ (au_counts[0] = 483 /\ au_counts[1] = 1120 /\ au_counts[2] = 197) =>
               (au_new[0][2] = 3 /\ au_new[1][2] = 1 /\ au_new[2][2] = 8)

C11_Witness ==
    /\ au_pc = "return"
    /\ au_counts[0] = 483
    /\ au_counts[1] = 1120
    /\ au_counts[2] = 197

\* C12: a second call of augment_tiles_based_on_factor with the same factors,
\* on the dictionary the first call left, creates no file, puts no name twice
\* in a tile list and leaves every tile list as long as the first call left it
C12_AugmentIdempotent ==
    Len(ag_after) = 2 =>
        /\ ag_after[2].files = ag_after[1].files
        /\ \A l \in DOMAIN ag_tiles : \A s \in DOMAIN ag_tiles[l] :
              /\ NoDuplicates(ag_after[2].tiles[l][s])
              /\ Len(ag_after[2].tiles[l][s]) = Len(ag_after[1].tiles[l][s])

\* the worker is through with a tile that get_tile returned
TileFiltered ==
    fl_pc = "done" /\ fl_fetched

\* the tile was accepted, and dropped when not
TileAccepted ==
    fl_normalized \/ fl_files # {} \/ fl_out # << >>

TileDropped ==
    ~fl_normalized /\ fl_files = {} /\ fl_out = << >> /\ fl_caught = 0

\* C13 as stated: a fetched tile is accepted only with more than 10 distinct
\* luminance values, a share of pixels below 220 that is at most the background
\* threshold, and a masked share of at least ROIpc; else it is dropped
C13_AcceptedBelowShare ==
    TileFiltered =>
        LET all == /\ fl_pixels.values > 10
                   /\ fl_pixels.below <= fl_Bkg
                   /\ fl_PercentMasked >= fl_ROIpc
        IN  /\ TileAccepted => all
            /\ ~all => TileDropped

\* C13 amended: the same with the share of pixels at or above 220 in place of
\* the share below 220
C13_AcceptedBrightShare ==
    TileFiltered =>
        LET all == /\ fl_pixels.values > 10
                   /\ 100 - fl_pixels.below <= fl_Bkg
                   /\ fl_PercentMasked >= fl_ROIpc
        IN  /\ TileAccepted => all
            /\ ~all => TileDropped

C13_Witness ==
    /\ TileFiltered
    /\ fl_pixels.values = 64
    /\ fl_pixels.below = 49
    /\ fl_Bkg = 50
    /\ fl_ROIpc = 0
    /\ TileDropped

\* C14: with a background threshold of 50 and ROIpc 0, a tile with more than
\* 10 distinct luminance values is accepted when at least 50% of its pixels
\* are below 220 and rejected when 49% are
C14_HalfBoundary ==
    (TileFiltered /\ fl_Bkg = 50 /\ fl_ROIpc = 0 /\ fl_pixels.values > 10) =>
        /\ fl_pixels.below >= 50 =>
              /\ fl_normalized
              /\ fl_caught = 0 => (fl_files = {"outfile"} /\ fl_out = <<"outfile">>)
        /\ fl_pixels.below = 49 => TileDropped

C14_Witness ==
    /\ TileFiltered
    /\ fl_Bkg = 50
    /\ fl_ROIpc = 0
    /\ fl_pixels.values = 11
    /\ fl_pixels.below = 50
    /\ fl_out = <<"outfile">>

\* C15: a tile with at most 10 distinct luminance values is dropped whatever
\* the background threshold and ROIpc are: nothing written, nothing reported
C15_FlatTileRejected ==
    (TileFiltered /\ fl_pixels.values <= 10) => TileDropped

C15_Witness ==
    /\ TileFiltered
    /\ fl_pixels.values = 1
    /\ fl_pixels.below = 0
    /\ fl_Bkg = 100
    /\ fl_ROIpc = 0
    /\ fl_PercentMasked = 100
    /\ TileDropped

\* first-channel value of row 0 >= that of row 1, for rows of non-negative
\* loadings: a / sqrt(p) >= b / sqrt(q) is a * a * q >= b * b * p, and no
\* comparison with 0 / 0 is true
FirstChannelGeq(W) ==
    /\ W[1].den2 > 0
    /\ W[2].den2 > 0
    /\ W[1].num[1] * W[1].num[1] * W[2].den2 >= W[2].num[1] * W[2].num[1] * W[1].den2

\* C16: the stain dictionary _stain_dict_Vahadane returns has a first-channel
\* value in row 0 that is at least the one in row 1
C16_RowZeroDominant ==
    st_pc = "return" => FirstChannelGeq(st_W)

\* a line of the label file names a label that is not in labels_map, or a
\* slide file is listed by no line of the label file
LabellingError ==
    \/ \E k \in DOMAIN lb_records : lb_records[k][2] \notin DOMAIN labels_map
    \/ \E k \in DOMAIN lb_files :
          \A j \in DOMAIN lb_records : lb_records[j][1] # lb_files[k]

\* C17: with an unknown label in the label file or a slide that no label
\* lists, slides_to_tiles never runs a tiler and never returns; an error is
\* raised only for such an input, before any tiler ran, and nothing follows it
C17_LabelErrorsFatal ==
    /\ [](/\ LabellingError => (lb_tilers = << >> /\ lb_pc \notin {"tiling", "return"})
          /\ lb_pc = "raise" => (LabellingError /\ lb_tilers = << >>))
    /\ [][lb_pc = "raise" => lb_pc' = "raise"]_vars

C17_Witness ==
    /\ lb_pc = "raise"
    /\ lb_files = <<1, 3>>
    /\ Len(lb_sample_labels) = 2
    /\ lb_dirs # {}

\* the job queue of run r holds no job
NoJobQueued(r) ==
    \A k \in DOMAIN queue[r] : queue[r][k].kind # "job"

\* C18: the jobs the workers of a run got are the first jobs put, each once
\* and in order, and all of them once the shutdown has completed or every
\* worker has consumed its sentinel; no two workers hold the same job; a step
\* that takes a job gives the head of the queue to one worker and removes it,
\* and no step of a worker puts a job on the queue
C18_EachJobOnce ==
    /\ [](\A r \in Runs :
          /\ NoDuplicates(taken[r])
          /\ Len(taken[r]) <= Len(enqueued[r])
          /\ taken[r] = SubSeq(enqueued[r], 1, Len(taken[r]))
          /\ posted[r] = 1 => taken[r] = enqueued[r]
          /\ (workers >= 1 /\ \A w \in Workers : wpc[r][w] = "exit") =>
                (NoJobQueued(r) /\ taken[r] = enqueued[r])
          /\ \A w1, w2 \in Workers :
                (w1 # w2 /\ wpc[r][w1] = "job" /\ wpc[r][w2] = "job") =>
                    wjob[r][w1] # wjob[r][w2])
    /\ [][\A r \in Runs :
            /\ taken'[r] # taken[r] =>
                  \E w \in Workers :
                      /\ wpc[r][w] = "get" /\ wpc'[r][w] = "job"
                      /\ wjob'[r][w] = Head(queue[r])
                      /\ queue'[r] = Tail(queue[r])
                      /\ taken'[r] = Append(taken[r], Head(queue[r]))
                      /\ \A w2 \in Workers : w2 # w =>
                            (wpc'[r][w2] = wpc[r][w2] /\ wjob'[r][w2] = wjob[r][w2])
            /\ (enqueued'[r] # enqueued[r] \/ Len(queue'[r]) > Len(queue[r])) =>
                  (wpc' = wpc /\ wjob' = wjob /\ r = idx
                   /\ pc \in {"write_tiles", "shutdown"})]_vars

C18_Witness ==
    /\ workers = 2
    /\ pc = "drain"
    /\ posted[idx] = 1
    /\ Len(taken[idx]) = 3
    /\ wpc[idx][1] = "exit"
    /\ wpc[idx][2] = "exit"
    /\ caught[idx] >= 1

\* the addresses _write_tiles of run r is through with
Visited(r) ==
    Len(enqueued[r]) + Len(shortcut[r])

\* _write_tiles of run r has returned
TilesWritten(r) ==
    \/ r < idx /\ failed[r] \in {"no", "get_dzi"}
    \/ r = idx /\ pc \in {"shutdown", "drain"}

\* the levels _write_tiles of run r enumerates: none without an objective,
\* else those whose magnification is the target, all for the target 0
LevelsOf(r) ==
    {level \in 0 .. level_count - 1 :
        /\ ObjectiveOf(slide_list[r]) # NoObjective
        /\ magnification > 0 =>
              ObjectiveOf(slide_list[r]) = magnification * 2 ^ (level_count - 1 - level)}

\* the addresses of the tile grids of a set of levels
Grid(levels) ==
    {g \in levels \X (0 .. MaxCols) \X (0 .. MaxCols) :
        g[2] < level_tiles(g[1])[1] /\ g[3] < level_tiles(g[1])[2]}

\* C19: for every address it visits _write_tiles does one of two things: the
\* file exists and its path is put on worker_queue with no job, or it does not
\* and one job is put on the job queue with nothing on worker_queue; nothing
\* else puts a job or reports for the tiler, and no address is left out
C19_ExistsOrJob ==
    /\ [](pc = "write_tiles" => Visited(idx) = pos - 1)
    /\ [](\A r \in Runs :
            TilesWritten(r) => Visited(r) = Cardinality(Grid(LevelsOf(r))))
    /\ [][/\ (pc = "write_tiles" /\ pos' = pos + 1) =>
               LET a == WriteTilesOrder(magnification)[pos]
                   name == tilename(slide_list[idx], a.col, a.row)
                   job == TileJob(slide_list[idx], a)
               IN  IF name \in files
                   THEN /\ out_buffer'[Main] = Append(out_buffer[Main], name)
                        /\ shortcut'[idx] = Append(shortcut[idx], name)
                        /\ queue' = queue
                        /\ enqueued' = enqueued
                   ELSE /\ queue'[idx] = Append(queue[idx], job)
                        /\ enqueued'[idx] = Append(enqueued[idx], job)
                        /\ out_buffer' = out_buffer
                        /\ shortcut' = shortcut
          /\ (enqueued' # enqueued \/ shortcut' # shortcut) =>
                 (pc = "write_tiles" /\ pos' = pos + 1)]_vars

C19_Witness ==
    /\ slide_list = <<1, 1>>
    /\ idx = 2
    /\ pc = "shutdown"
    /\ magnification = 20
    /\ shortcut[2] = << <<1, 0, 0>> >>
    /\ Len(enqueued[2]) = 1

\* the levels whose magnification, the objective power divided by the
\* downsample factor 2 ^ (level_count - 1 - level), is Mag
MatchingLevels(r, Mag) ==
    {level \in 0 .. level_count - 1 :
        LET factor == 2 ^ (level_count - 1 - level)
        IN  /\ ObjectiveOf(slide_list[r]) % factor = 0
            /\ ObjectiveOf(slide_list[r]) \div factor = Mag}

\* jobs and direct reports of run r are of the levels of the target
OnlyMatching(r) ==
    /\ \A k \in DOMAIN enqueued[r] : enqueued[r][k].level \in MatchingLevels(r, magnification)
    /\ \A k \in DOMAIN shortcut[r] :
          \E g \in Grid(MatchingLevels(r, magnification)) :
              shortcut[r][k] = tilename(slide_list[r], g[2], g[3])
    /\ MatchingLevels(r, magnification) = {} =>
          (enqueued[r] = << >> /\ shortcut[r] = << >> /\ reported[r] = {})

Fallback ==
    IF img_extension \in {"jpg", "dcm"} THEN 1
    ELSE IF img_extension \in {"tiff", "btf"} THEN 20
    ELSE NoObjective

\* the levels such an objective gives tiles of
FallbackLevels ==
    {level \in 0 .. level_count - 1 :
        /\ Fallback # NoObjective
        /\ magnification > 0 => Fallback = magnification * 2 ^ (level_count - 1 - level)}

\* C21: a slide without the objective property is tiled as one of objective 1
\* when the extension is jpg or dcm and of objective 20 when it is tiff or btf;
\* with another extension no job is put and no path reported, and the run
\* completes: one sentinel per worker, the terminal sentinel posted, and an
\* empty tile list for the slide once its drain has stopped
C21_NoObjectiveFallback ==
    \A r \in Runs :
        properties[slide_list[r]] = NoObjective =>
            /\ TilesWritten(r) => Visited(r) = Cardinality(Grid(FallbackLevels))
            /\ \A k \in DOMAIN enqueued[r] : enqueued[r][k].level \in FallbackLevels
            /\ Fallback = NoObjective =>
                  /\ enqueued[r] = << >> /\ shortcut[r] = << >> /\ reported[r] = {}
                  /\ RunReturned(r) => (sentinels[r] = workers /\ posted[r] = 1)
                  /\ (r < idx /\ failed[r] = "no") =>
                        LET class == labels_map[get_sample_label(slide_list[r])]
                        IN  /\ collected[r] = << >>
                            /\ slide_list[r] \in DOMAIN tile_dict[class]
                            /\ tile_dict[class][slide_list[r]] = << >>

\* C22: a step in which a worker skips a tile on a Warning puts nothing on
\* worker_queue and writes no file, acknowledges the job with one task_done,
\* and leaves that worker at queue.get() without a job; the path is the one of
\* the job the worker held
C22_WarningSkips ==
    [][\A r \in Runs : skipped'[r] # skipped[r] =>
          \E w \in Workers :
              /\ wpc[r][w] = "job" /\ wpc'[r][w] = "get"
              /\ wjob'[r][w] = NoneJob
              /\ skipped'[r] = Append(skipped[r], wjob[r][w].outfile)
              /\ out_buffer' = out_buffer
              /\ worker_queue' = worker_queue
              /\ reported' = reported
              /\ files' = files
              /\ acked'[r] = acked[r] + 1
              /\ unfinished'[r] = unfinished[r] - 1
              /\ queue' = queue]_vars

C22_Witness ==
    /\ workers = 1
    /\ magnification = 20
    /\ skipped[1] = << <<1, 0, 0>> >>
    /\ Len(taken[1]) = 2
    /\ wpc[1][1] = "job"
    /\ acked[1] = 1

\* what is inserted before the extension for i = 1 .. 7: the angle and
\* whether "_mirror" follows it
Inserted ==
    << <<90, FALSE>>, <<180, FALSE>>, <<270, FALSE>>, <<0, TRUE>>,
       <<90, TRUE>>, <<180, TRUE>>, <<270, TRUE>> >>

\* C23: after the first call of augment_tiles_based_on_factor, the list of a
\* slide whose label has a factor f of 1 .. 8 is its n original tiles followed,
\* for each of them in order and each i of 1 .. f - 1, by the name with the
\* angle of i and the mirror mark inserted; it has f * n names, no name twice,
\* and every name is a file; an empty list is left empty
C23_AugmentDerives ==
    Len(ag_after) >= 1 =>
        \A l \in DOMAIN ag_tiles : \A s \in DOMAIN ag_tiles[l] :
            LET n == ag_factor[l][1]
                f == ag_factor[l][2]
                list == ag_after[1].tiles[l][s]
            IN  f \in 1 .. 8 =>
                    /\ Len(list) = f * n
                    /\ \A k \in 1 .. n : list[k] = OriginalTile(s, k)
                    /\ \A k \in 1 .. n : \A i \in 1 .. f - 1 :
                          list[n + (k - 1) * (f - 1) + i] =
                              [base |-> OriginalTile(s, k).base,
                               suffix |-> << Inserted[i] >>]
                    /\ NoDuplicates(list)
                    /\ Range(list) \subseteq ag_after[1].files
                    /\ n = 0 => list = << >>

C23_Witness ==
    /\ Len(ag_after) >= 1
    /\ ag_factor[0] = <<2, 8>>
    /\ ag_factor[1] = <<0, 1>>
    /\ Len(ag_after[1].tiles[0][1]) = 16
    /\ ag_after[1].tiles[1][2] = << >>

\* the tile paths among the items of a sequence
Paths(items) ==
    {items[k] : k \in {j \in DOMAIN items : items[j] # None}}

\* C24: every path in worker_queue, on its way to it, reported or collected
\* is a file that exists; a worker puts a path only in the step in which it
\* wrote the file of its job, a tile that passed the filter, with no exception;
\* the main process puts a path only in _write_tiles, of a file that exists
C24_ReportedExists ==
    /\ [](/\ Paths(worker_queue) \subseteq files
          /\ \A proc \in DOMAIN out_buffer : Paths(out_buffer[proc]) \subseteq files
          /\ \A r \in Runs : reported[r] \subseteq files
          /\ \A r \in Runs : Range(collected[r]) \subseteq files)
    /\ [][\A proc \in DOMAIN out_buffer :
            Len(out_buffer'[proc]) > Len(out_buffer[proc]) =>
                LET p == out_buffer'[proc][Len(out_buffer'[proc])]
                IN  /\ out_buffer'[proc] = Append(out_buffer[proc], p)
                    /\ IF proc = Main
                       THEN \/ p = None /\ pc = "shutdown"
                            \/ p \in files /\ pc = "write_tiles" /\ queue' = queue
                       ELSE LET r == proc[1]
                                w == proc[2]
                                job == wjob[r][w]
                            IN  /\ wpc[r][w] = "job"
                                /\ p = job.outfile
                                /\ p \in files'
                                /\ p \in normalized'[r]
                                /\ caught' = caught
                                /\ skipped' = skipped
                                /\ Accepted(Pixels(slide_list[r], job.level,
                                                   job.col, job.row))]_vars

C24_Witness ==
    /\ slide_list = <<1, 1>>
    /\ idx = 2
    /\ pc = "write_tiles"
    /\ magnification = 0
    /\ Len(shortcut[2]) = 1
    /\ caught[1] = 1
    /\ reported[1] = {<<1, 0, 0>>}
    /\ collected[1] = << <<1, 0, 0>> >>

\* the workers of run r that left the loop on a sentinel
Exited(r) ==
    {w \in Workers : wpc[r][w] = "exit"}

\* the items the workers of run r took from the job queue: jobs and sentinels
ItemsTaken(r) ==
    Len(taken[r]) + Cardinality(Exited(r))

\* C25: the task_done calls of a run are the items its workers took less the
\* jobs they are still processing, never more than the items taken, and all
\* the items put once every worker has left the loop; a step acknowledges one
\* item, as one worker is through with its job or takes a sentinel, and every
\* such step acknowledges
C25_AckedOnce ==
    /\ [](\A r \in Runs :
            /\ acked[r] <= ItemsTaken(r)
            /\ acked[r] = ItemsTaken(r) - Cardinality({w \in Workers : wpc[r][w] = "job"})
            /\ unfinished[r] = Len(Puts(r)) - acked[r]
            /\ (workers >= 1 /\ Exited(r) = Workers) => acked[r] = Len(Puts(r)))
    /\ [][\A r \in Runs :
            /\ acked'[r] # acked[r] =>
                  /\ acked'[r] = acked[r] + 1
                  /\ \E w \in Workers :
                        /\ \/ wpc[r][w] = "job" /\ wpc'[r][w] = "get"
                           \/ /\ wpc[r][w] = "get" /\ wpc'[r][w] = "exit"
                              /\ Head(queue[r]) = NoneJob
                              /\ queue'[r] = Tail(queue[r])
                        /\ \A w2 \in Workers : w2 # w => wpc'[r][w2] = wpc[r][w2]
            /\ \A w \in Workers :
                  (wpc'[r][w] # wpc[r][w] /\ wpc'[r][w] \in {"get", "exit"}
                       /\ wpc[r][w] # "start") =>
                      acked'[r] = acked[r] + 1]_vars

C25_Witness ==
    /\ workers = 2
    /\ Exited(1) = Workers
    /\ acked[1] = 5
    /\ skipped[1] # << >>
    /\ caught[1] = 1
    /\ reported[1] # {}

\* C26: every path the drain of a run collected was reported by that run and
\* is a tile of its slide, and every path under a slide in tile_dict is a tile
\* of that slide
C26_OwnResultsOnly ==
    /\ \A r \in Runs : \A k \in DOMAIN collected[r] :
          /\ collected[r][k] \in reported[r]
          /\ collected[r][k][1] = slide_list[r]
    /\ \A c \in DOMAIN tile_dict : \A slide \in DOMAIN tile_dict[c] :
          \A p \in Range(tile_dict[c][slide]) : p[1] = slide

\* the producer waits at a put on the full job queue of the current run while
\* no worker of the run will take an item: each has left the loop
ProducerStuck ==
    /\ AtPut
    /\ Full(idx)
    /\ \A w \in Workers : wpc[idx][w] = "exit"

\* C27: with at least one worker, workers that complete their start-up and
\* fair scheduling, a tiler whose workers were started comes to post the
\* terminal sentinel; when it is posted every job and every sentinel has been
\* taken, each worker has left the loop on one sentinel and the join has
\* returned; the producer is never stuck at a put
C27_TilingTerminates ==
    /\ \A r \in 1 .. MaxWorkers :
          (r \in Runs /\ idx = r /\ pc = "run_image") ~> (r \in Runs /\ posted[r] = 1)
    /\ [](\A r \in Runs : posted[r] = 1 =>
              /\ taken[r] = enqueued[r]
              /\ queue[r] = << >>
              /\ sentinels[r] = workers
              /\ Exited(r) = Workers
              /\ unfinished[r] = 0)
    /\ [](~ProducerStuck)

====
